---- MODULE Spec2Model ----
(***************************************************************************)
(* Habit tracker: the Habit record (habit.py), the streak analytics        *)
(* (analyze.py) and the menu loop of the command line front end (main.py). *)
(* Calendar dates are day numbers (naturals); the difference of two dates  *)
(* is the difference of their day numbers, as (d1 - d2).days is.           *)
(***************************************************************************)
EXTENDS Integers, Sequences, FiniteSets, TLC

VARIABLES
    habits,   \* the Habit objects in memory, in list order
    today,    \* the ambient date.today()
    call,     \* the last Habit-level call: operation, argument, outcome
    pc,       \* position of run(): "setup", "menu", "crashed", "exited"
    db,       \* the storage collaborator: habit rows, completion rows, next id
    out       \* the last message the front end printed

vars == <<habits, today, call, pc, db, out>>

----------------------------------------------------------------------------
(* Bounds of the model *)

MaxDay == 2         \* dates passed to complete(): days 0..MaxDay, and a week on
MaxLen == 3         \* completions per habit in the single-habit specification
MaxStart == 1       \* start dates passed to Habit() are 0..MaxStart
MaxToday == 1       \* the ambient date runs over 0..MaxToday
MaxHabits == 2      \* habits handed to the cross-habit analytics
MaxSeed == 1        \* habits stored before the front end starts
MaxId == 2          \* ids the store hands out are 1..MaxId

(* Program constants *)

DAILY_GAP == 1
WEEKLY_GAP == 7

None == -1          \* Python's None as a date argument

DateSet == (0..MaxDay) \cup {WEEKLY_GAP, WEEKLY_GAP + 1}
StartSet == 0..MaxStart
PeriodicityInputs == {"daily", "weekly", "monthly"}
\* reference dates "today" that the streak claims range over
TodayRange == 0..(2 * WEEKLY_GAP + 2)

Range(s) == {s[i] : i \in 1..Len(s)}

----------------------------------------------------------------------------
(* habit.py *)

VALID_PERIODICITY == [p \in {"daily", "weekly"} |-> IF p = "daily" THEN DAILY_GAP ELSE WEEKLY_GAP]

\* Habit.__init__ without the periodicity check
HabitInitUnchecked(habit_id, name, periodicity, start_date) ==
    [raised |-> FALSE,
     habit |-> [id |-> habit_id, name |-> name, periodicity |-> periodicity,
                start_date |-> start_date, completions |-> <<>>,
                max_streak |-> 1]]

\* Habit.__init__: raises ValueError for a periodicity that is no key of
\* VALID_PERIODICITY, otherwise builds the object.
HabitInit(habit_id, name, periodicity, start_date) ==
    IF periodicity \notin DOMAIN VALID_PERIODICITY
    THEN [raised |-> TRUE]
    ELSE [raised |-> FALSE,
          habit |-> [id |-> habit_id, name |-> name, periodicity |-> periodicity,
                     start_date |-> start_date, completions |-> <<>>,
                     max_streak |-> 1]]

\* the tail of Habit.complete without the membership test
AppendAlways(completions, completion_date) == Append(completions, completion_date)

\* the tail of Habit.complete: append unless already present
AppendIfAbsent(completions, completion_date) ==
    IF completion_date \notin Range(completions)
    THEN Append(completions, completion_date)
    ELSE completions

\* Habit.complete refusing the start date itself (<= for <)
HabitCompleteStrict(h, completion_date, now) ==
    LET d == IF completion_date = None THEN now ELSE completion_date
    IN IF d <= h.start_date
       THEN [raised |-> TRUE, habit |-> h]
       ELSE [raised |-> FALSE,
             habit |-> [h EXCEPT !.completions = AppendIfAbsent(@, d)]]

\* Habit.complete replacing the argument by today unconditionally
HabitCompleteIgnoresDate(h, completion_date, now) ==
    IF now < h.start_date
    THEN [raised |-> TRUE, habit |-> h]
    ELSE [raised |-> FALSE,
          habit |-> [h EXCEPT !.completions = AppendIfAbsent(@, now)]]

\* Habit.complete: None means today; a date before start_date raises
\* ValueError before anything is changed.
HabitComplete(h, completion_date, now) ==
    LET d == IF completion_date = None THEN now ELSE completion_date
    IN IF d < h.start_date
       THEN [raised |-> TRUE, habit |-> h]
       ELSE [raised |-> FALSE,
             habit |-> [h EXCEPT !.completions = AppendIfAbsent(@, d)]]

\* Habit.reset
HabitReset(h) == [h EXCEPT !.completions = <<>>]

----------------------------------------------------------------------------
(* analyze.py *)

RECURSIVE SortAsc(_)
\* sorted(S) of a finite set of dates: the least element first
SortAsc(S) ==
    IF S = {} THEN <<>>
    ELSE LET m == CHOOSE x \in S : \A y \in S : x <= y
         IN <<m>> \o SortAsc(S \ {m})

\* the completions as inserted, not sorted
InsertionOrder(completions) == completions

\* sorted(set(habit.completions))
SortedDates(completions) == SortAsc(Range(completions))

\* expected_gap = 1 if habit.periodicity == "daily" else 7
ExpectedGap(periodicity) == IF periodicity = "daily" THEN DAILY_GAP ELSE WEEKLY_GAP

RECURSIVE LongestLoopLast(_, _, _, _, _)
\* the loop returning the streak that is running at the end, not the maximum
LongestLoopLast(sorted_dates, expected_gap, i, max_streak, current_streak) ==
    IF i > Len(sorted_dates) THEN current_streak
    ELSE LET delta == sorted_dates[i] - sorted_dates[i - 1]
             cur == IF delta = expected_gap THEN current_streak + 1 ELSE 1
         IN LongestLoopLast(sorted_dates, expected_gap, i + 1, max_streak, cur)

RECURSIVE LongestLoop(_, _, _, _, _)
\* the for loop of longest_streak_for_habit, from index i (1-based: i = 2 is
\* Python's i = 1)
LongestLoop(sorted_dates, expected_gap, i, max_streak, current_streak) ==
    IF i > Len(sorted_dates) THEN max_streak
    ELSE LET delta == sorted_dates[i] - sorted_dates[i - 1]
             cur == IF delta = expected_gap THEN current_streak + 1 ELSE 1
             mx == IF cur > max_streak THEN cur ELSE max_streak
         IN LongestLoop(sorted_dates, expected_gap, i + 1, mx, cur)

\* longest_streak_for_habit with the loop starting one index late
\* (range(2, len) for range(1, len))
longest_streak_skipping_first(habit) ==
    IF habit.completions = <<>> THEN 0
    ELSE LongestLoop(SortedDates(habit.completions),
                     ExpectedGap(habit.periodicity), 3, 1, 1)

longest_streak_for_habit(habit) ==
    IF habit.completions = <<>> THEN 0
    ELSE LongestLoop(SortedDates(habit.completions),
                     ExpectedGap(habit.periodicity), 2, 1, 1)

RECURSIVE CurrentLoop(_, _, _, _)
\* the backward for loop of current_streak_for_habit, from index i down to 2
CurrentLoop(sorted_dates, expected_gap, i, streak) ==
    IF i < 2 THEN streak
    ELSE LET delta == sorted_dates[i] - sorted_dates[i - 1]
         IN IF delta = expected_gap
            THEN CurrentLoop(sorted_dates, expected_gap, i - 1, streak + 1)
            ELSE streak

\* current_streak_for_habit lapsing already at the expected gap (>= for >)
current_streak_lapsing_early(habit, now) ==
    IF habit.completions = <<>> THEN 0
    ELSE LET sorted_dates == SortedDates(habit.completions)
             expected_gap == ExpectedGap(habit.periodicity)
             last_completion == sorted_dates[Len(sorted_dates)]
         IN IF now - last_completion >= expected_gap
            THEN 0
            ELSE CurrentLoop(sorted_dates, expected_gap, Len(sorted_dates), 1)

\* current_streak_for_habit, with date.today() passed as now
current_streak_for_habit(habit, now) ==
    IF habit.completions = <<>> THEN 0
    ELSE LET sorted_dates == SortedDates(habit.completions)
             expected_gap == ExpectedGap(habit.periodicity)
             last_completion == sorted_dates[Len(sorted_dates)]
         IN IF now - last_completion > expected_gap
            THEN 0
            ELSE CurrentLoop(sorted_dates, expected_gap, Len(sorted_dates), 1)

RECURSIVE AllHabitsLoopNoTies(_, _, _, _)
\* the loop without the elif branch that collects ties
AllHabitsLoopNoTies(hs, i, habits_with_max, max_streak) ==
    IF i > Len(hs) THEN <<habits_with_max, max_streak>>
    ELSE LET streak == longest_streak_for_habit(hs[i])
         IN IF streak > max_streak
            THEN AllHabitsLoopNoTies(hs, i + 1, <<hs[i].name>>, streak)
            ELSE AllHabitsLoopNoTies(hs, i + 1, habits_with_max, max_streak)

RECURSIVE AllHabitsLoop(_, _, _, _)
\* the for loop of longest_streak_all_habits
AllHabitsLoop(hs, i, habits_with_max, max_streak) ==
    IF i > Len(hs) THEN <<habits_with_max, max_streak>>
    ELSE LET streak == longest_streak_for_habit(hs[i])
         IN IF streak > max_streak
            THEN AllHabitsLoop(hs, i + 1, <<hs[i].name>>, streak)
            ELSE IF streak = max_streak
            THEN AllHabitsLoop(hs, i + 1, Append(habits_with_max, hs[i].name), max_streak)
            ELSE AllHabitsLoop(hs, i + 1, habits_with_max, max_streak)

\* longest_streak_all_habits: (list of names, max streak)
longest_streak_all_habits(hs) ==
    IF hs = <<>> THEN <<(<<>>), 0>>
    ELSE AllHabitsLoop(hs, 1, <<>>, 0)

RECURSIVE ByPeriodicityLoopLastWins(_, _, _)
\* the loop replacing the best on a tie (>= for >)
ByPeriodicityLoopLastWins(hs, i, result) ==
    IF i > Len(hs) THEN result
    ELSE LET h == hs[i]
             streak == longest_streak_for_habit(h)
         IN IF h.periodicity \notin DOMAIN result
            THEN ByPeriodicityLoopLastWins(hs, i + 1, (h.periodicity :> <<h.name, streak>>) @@ result)
            ELSE IF streak >= result[h.periodicity][2]
            THEN ByPeriodicityLoopLastWins(hs, i + 1, [result EXCEPT ![h.periodicity] = <<h.name, streak>>])
            ELSE ByPeriodicityLoopLastWins(hs, i + 1, result)

RECURSIVE ByPeriodicityLoop(_, _, _)
\* the for loop of longest_streak_by_periodicity; result is the dict, a
\* function from the keys present to (name, streak)
ByPeriodicityLoop(hs, i, result) ==
    IF i > Len(hs) THEN result
    ELSE LET h == hs[i]
             streak == longest_streak_for_habit(h)
         IN IF h.periodicity \notin DOMAIN result
            THEN ByPeriodicityLoop(hs, i + 1, (h.periodicity :> <<h.name, streak>>) @@ result)
            ELSE IF streak > result[h.periodicity][2]
            THEN ByPeriodicityLoop(hs, i + 1, [result EXCEPT ![h.periodicity] = <<h.name, streak>>])
            ELSE ByPeriodicityLoop(hs, i + 1, result)

longest_streak_by_periodicity(hs) == ByPeriodicityLoop(hs, 1, <<>>)

----------------------------------------------------------------------------
(* A client of the Habit class: create, complete, reset *)

NoCall == [op |-> "none", arg |-> None, status |-> "ok"]

\* Habit(habit_id, name, periodicity, start_date), the object appended to
\* the client's list when the constructor returns
Create(name, periodicity, start_date) ==
    LET r == HabitInit(Len(habits) + 1, name, periodicity, start_date)
    IN /\ habits' = IF r.raised THEN habits ELSE Append(habits, r.habit)
       /\ call' = [op |-> "create", arg |-> None,
                   status |-> IF r.raised THEN "ValueError" ELSE "ok"]
       /\ UNCHANGED <<today, pc, db, out>>

\* habits[i].complete(completion_date)
Complete(i, completion_date) ==
    LET r == HabitComplete(habits[i], completion_date, today)
    IN /\ habits' = [habits EXCEPT ![i] = r.habit]
       /\ call' = [op |-> "complete",
                   arg |-> IF completion_date = None THEN today ELSE completion_date,
                   status |-> IF r.raised THEN "ValueError" ELSE "ok"]
       /\ UNCHANGED <<today, pc, db, out>>

\* habits[i].reset()
Reset(i) ==
    /\ habits' = [habits EXCEPT ![i] = HabitReset(@)]
    /\ call' = [op |-> "reset", arg |-> None, status |-> "ok"]
    /\ UNCHANGED <<today, pc, db, out>>

\* midnight passes
Tick ==
    /\ today' = today + 1
    /\ UNCHANGED <<habits, call, pc, db, out>>

EmptyDb == [habits |-> <<>>, completions |-> {}, next_id |-> 1]

InitHabit ==
    /\ habits = <<>>
    /\ today = 0
    /\ call = NoCall
    /\ pc = "setup"
    /\ db = EmptyDb
    /\ out = ""

\* the date a complete(completion_date) call records
Effective(completion_date) == IF completion_date = None THEN today ELSE completion_date

\* one Habit object under test
NextHabit ==
    \/ /\ habits = <<>>
       /\ \E periodicity \in PeriodicityInputs, start_date \in StartSet :
              Create("Read", periodicity, start_date)
    \/ /\ habits # <<>>
       /\ \E d \in DateSet \cup {None} :
              /\ \/ Len(habits[1].completions) < MaxLen
                 \/ Effective(d) \in Range(habits[1].completions)
                 \/ Effective(d) < habits[1].start_date
              /\ Complete(1, d)
    \/ /\ habits # <<>>
       /\ Reset(1)
    \/ /\ today < MaxToday
       /\ Tick

SpecHabit == InitHabit /\ [][NextHabit]_vars

HabitNames == <<"Read", "Run", "Walk", "Swim">>
AnalyticsDates == {0, DAILY_GAP, WEEKLY_GAP}

\* several Habit objects, as handed to the cross-habit analytics
NextAnalytics ==
    \/ /\ Len(habits) < MaxHabits
       /\ \E periodicity \in PeriodicityInputs :
              Create(HabitNames[Len(habits) + 1], periodicity, 0)
    \/ \E i \in 1..Len(habits), d \in AnalyticsDates : Complete(i, d)
    \/ \E i \in 1..Len(habits) : Reset(i)

SpecAnalytics == InitHabit /\ [][NextAnalytics]_vars

----------------------------------------------------------------------------
(* database.py, as main.py and test.py use it *)

\* save_habit(db, habit) and save_habits(db, [habit]): a new row, its id
\* assigned by the store (AUTOINCREMENT), and a row per completion
SaveHabit(d, h) ==
    [habits |-> Append(d.habits, [id |-> d.next_id, name |-> h.name,
                                  periodicity |-> h.periodicity,
                                  start_date |-> h.start_date]),
     completions |-> d.completions \cup {<<d.next_id, c>> : c \in Range(h.completions)},
     next_id |-> d.next_id + 1]

\* load_habits(db): one Habit per row, in row order, with its completions
LoadHabits(d) ==
    [i \in 1..Len(d.habits) |->
        LET row == d.habits[i]
            h == HabitInit(row.id, row.name, row.periodicity, row.start_date).habit
        IN [h EXCEPT !.completions = SortAsc({c[2] : c \in {x \in d.completions : x[1] = row.id}})]]

\* save_completion(db, habit_id, date)
SaveCompletion(d, habit_id, date) ==
    [d EXCEPT !.completions = @ \cup {<<habit_id, date>>}]

\* update_habit(db, habit_id, new_name, new_periodicity): None keeps a field
UpdateHabit(d, habit_id, new_name, new_periodicity) ==
    [d EXCEPT !.habits =
        [i \in 1..Len(@) |->
            IF @[i].id # habit_id THEN @[i]
            ELSE [@[i] EXCEPT
                    !.name = IF new_name = "None" THEN @ ELSE new_name,
                    !.periodicity = IF new_periodicity = "None" THEN @ ELSE new_periodicity]]]

\* delete_habit(db, habit_id): the row and its completions
DeleteHabit(d, habit_id) ==
    [d EXCEPT !.habits = SelectSeq(@, LAMBDA row : row.id # habit_id),
              !.completions = {c \in @ : c[1] # habit_id}]

----------------------------------------------------------------------------
(* main.py *)

\* what the user may type
NameTyped == {"Read", "read", " Run "}
PeriodicityTyped == {"daily", "Weekly ", "monthly", ""}

\* str.strip() on the strings above
Strip(s) == CASE s = " Run " -> "Run" [] s = "Weekly " -> "Weekly" [] OTHER -> s

\* str.lower() on the strings above
Lower(s) ==
    CASE s = "Read" -> "read" [] s = "Run" -> "run" [] s = "Weekly" -> "weekly"
      [] OTHER -> s

RECURSIVE PeriodicityLoop(_, _)
\* the while True loop of add_habit over the typed answers: the first one
\* that is a key of VALID_PERIODICITY, "None" while the loop is still asking
PeriodicityLoop(typed, i) ==
    IF i > Len(typed) THEN "None"
    ELSE LET periodicity == Lower(Strip(typed[i]))
         IN IF periodicity \in DOMAIN VALID_PERIODICITY THEN periodicity
            ELSE PeriodicityLoop(typed, i + 1)

\* the answers to "daily / weekly: " up to the one accepted, at most one
\* of them refused
PeriodicityAnswers ==
    LET accepted == {p \in PeriodicityTyped : Lower(Strip(p)) \in DOMAIN VALID_PERIODICITY}
    IN {<<p>> : p \in accepted}
         \cup {<<q, p>> : q \in PeriodicityTyped \ accepted, p \in accepted}

\* choice is None or choice < 1 or choice > len(habits)
InvalidSelection(choice) == choice = None \/ choice < 1 \/ choice > Len(habits)

\* any(h.name.lower() == name.lower() [and h.id != habit_id] for h in habits)
NameTaken(name, except_id) ==
    \E i \in 1..Len(habits) :
        Lower(habits[i].name) = Lower(name) /\ habits[i].id # except_id

\* elif new_periodicity not in Habit.VALID_PERIODICITY
EditPeriodicityInvalid(new_periodicity) ==
    new_periodicity # "" /\ new_periodicity \notin DOMAIN VALID_PERIODICITY

\* test.py setup: Habit(id, name, periodicity, start_date) built directly and
\* persisted with save_habits before the front end starts
Seed(name, periodicity, start_date) ==
    LET r == HabitInit(db.next_id, name, periodicity, start_date)
    IN /\ pc = "setup"
       /\ db' = IF r.raised THEN db ELSE SaveHabit(db, r.habit)
       /\ call' = [op |-> "create", arg |-> None,
                   status |-> IF r.raised THEN "ValueError" ELSE "ok"]
       /\ UNCHANGED <<habits, today, pc, out>>

\* run(), up to the menu loop: habits = database.load_habits(db)
Run ==
    /\ pc = "setup"
    /\ habits' = LoadHabits(db)
    /\ pc' = "menu"
    /\ UNCHANGED <<today, call, db, out>>

\* menu option 1
AddHabit(name_typed, periodicity_answers) ==
    LET name == Strip(name_typed)
        periodicity == PeriodicityLoop(periodicity_answers, 1)
    IN /\ pc = "menu"
       /\ IF NameTaken(name, None)
          THEN /\ out' = "Habit already exists."
               /\ UNCHANGED <<habits, db>>
          ELSE /\ periodicity # "None"
               /\ LET r == HabitInit(None, name, periodicity, today)
                      saved == SaveHabit(db, r.habit)
                  IN /\ ~r.raised
                     /\ db' = saved
                     /\ habits' = LoadHabits(saved)
               /\ out' = "Habit added successfully."
       /\ UNCHANGED <<today, call, pc>>

\* menu option 2; a Habit object is always truthy, so "if habit:" always
\* takes the branch that calls habit.complete(); its ValueError is caught
\* neither here nor in run()
CompleteHabit(choice) ==
    /\ pc = "menu"
    /\ IF habits = <<>>
       THEN /\ out' = "No habits available."
            /\ UNCHANGED <<habits, call, pc, db>>
       ELSE IF InvalidSelection(choice)
       THEN /\ out' = "Invalid selection."
            /\ UNCHANGED <<habits, call, pc, db>>
       ELSE LET r == HabitComplete(habits[choice], None, today)
            IN /\ call' = [op |-> "complete", arg |-> today,
                           status |-> IF r.raised THEN "ValueError" ELSE "ok"]
               /\ IF r.raised
                  THEN /\ pc' = "crashed"
                       /\ out' = "Select habit: "
                       /\ UNCHANGED <<habits, db>>
                  ELSE /\ habits' = [habits EXCEPT ![choice] = r.habit]
                       /\ db' = SaveCompletion(db, habits[choice].id, today)
                       /\ out' = "Habit marked as completed."
                       /\ UNCHANGED pc
    /\ UNCHANGED today

\* menu option 3
ShowAnalytics ==
    /\ pc = "menu"
    /\ out' = IF habits = <<>> THEN "No habits available." ELSE "Longest Streak Overall"
    /\ UNCHANGED <<habits, today, call, pc, db>>

\* menu option 4
EditHabit(choice, new_name_typed, new_periodicity_typed) ==
    LET new_name == Strip(new_name_typed)
        new_periodicity == Lower(Strip(new_periodicity_typed))
    IN /\ pc = "menu"
       /\ IF habits = <<>>
          THEN /\ out' = "No habits available."
               /\ UNCHANGED <<habits, db>>
          ELSE IF InvalidSelection(choice)
          THEN /\ out' = "Invalid selection."
               /\ UNCHANGED <<habits, db>>
          ELSE IF EditPeriodicityInvalid(new_periodicity)
          THEN /\ out' = "Invalid periodicity."
               /\ UNCHANGED <<habits, db>>
          ELSE IF new_name # "" /\ NameTaken(new_name, habits[choice].id)
          THEN /\ out' = "Another habit with this name already exists."
               /\ UNCHANGED <<habits, db>>
          ELSE /\ db' = UpdateHabit(db, habits[choice].id,
                                    IF new_name = "" THEN "None" ELSE new_name,
                                    IF new_periodicity = "" THEN "None" ELSE new_periodicity)
               /\ habits' = [habits EXCEPT
                    ![choice].name = IF new_name # "" THEN new_name ELSE @,
                    ![choice].periodicity = IF new_periodicity # "" THEN new_periodicity ELSE @]
               /\ out' = "Habit edited successfully."
       /\ UNCHANGED <<today, call, pc>>

\* menu option 5
DeleteHabitCli(choice) ==
    /\ pc = "menu"
    /\ IF habits = <<>>
       THEN /\ out' = "No habits to delete."
            /\ UNCHANGED <<habits, db>>
       ELSE IF InvalidSelection(choice)
       THEN /\ out' = "Invalid selection."
            /\ UNCHANGED <<habits, db>>
       ELSE /\ db' = DeleteHabit(db, habits[choice].id)
            /\ habits' = [i \in 1..(Len(habits) - 1) |->
                            IF i < choice THEN habits[i] ELSE habits[i + 1]]
            /\ out' = "Habit deleted successfully."
    /\ UNCHANGED <<today, call, pc>>

\* menu option 6
Exit ==
    /\ pc = "menu"
    /\ pc' = "exited"
    /\ out' = "Keep up the good habits! See you soon!"
    /\ UNCHANGED <<habits, today, call, db>>

\* any other menu input
InvalidOption ==
    /\ pc = "menu"
    /\ out' = "Invalid option. Please choose 1-5."
    /\ UNCHANGED <<habits, today, call, pc, db>>

SeedNames == {"Read", "Run"}
Choices == {None} \cup (0..3)

\* a seeded store, then the menu loop
NextCli ==
    \/ /\ Len(db.habits) < MaxSeed
       /\ \E name \in SeedNames, periodicity \in PeriodicityInputs, start_date \in StartSet :
              /\ \A i \in 1..Len(db.habits) : db.habits[i].name # name
              /\ Seed(name, periodicity, start_date)
    \/ Run
    \/ /\ db.next_id <= MaxId
       /\ \E name_typed \in NameTyped, answers \in PeriodicityAnswers :
              AddHabit(name_typed, answers)
    \/ \E choice \in Choices : CompleteHabit(choice)
    \/ ShowAnalytics
    \/ \E choice \in Choices, new_name_typed \in NameTyped \cup {""},
          new_periodicity_typed \in PeriodicityTyped :
           EditHabit(choice, new_name_typed, new_periodicity_typed)
    \/ \E choice \in Choices : DeleteHabitCli(choice)
    \/ Exit
    \/ InvalidOption
    \/ /\ today < MaxToday
       /\ Tick

SpecCli == InitHabit /\ [][NextCli]_vars

\* the operations that create or edit a habit: construction and storing
\* before the front end starts, loading, menu options 1 and 4
NextEdit ==
    \/ /\ Len(db.habits) < MaxSeed
       /\ \E name \in SeedNames, periodicity \in PeriodicityInputs, start_date \in StartSet :
              /\ \A i \in 1..Len(db.habits) : db.habits[i].name # name
              /\ Seed(name, periodicity, start_date)
    \/ Run
    \/ /\ db.next_id <= MaxId
       /\ \E name_typed \in NameTyped, answers \in PeriodicityAnswers :
              AddHabit(name_typed, answers)
    \/ \E choice \in Choices, new_name_typed \in NameTyped \cup {""},
          new_periodicity_typed \in PeriodicityTyped :
           EditHabit(choice, new_name_typed, new_periodicity_typed)

SpecEdit == InitHabit /\ [][NextEdit]_vars

----------------------------------------------------------------------------
(* Notions the claims are stated in *)

\* the ascending sequence of a set of dates, by rank
AscSeq(S) ==
    [i \in 1..Cardinality(S) |->
        CHOOSE x \in S : Cardinality({y \in S : y < x}) = i - 1]

Maximum(S) == CHOOSE x \in S : \A y \in S : y <= x
Minimum(S) == CHOOSE x \in S : \A y \in S : x <= y

\* the expected gap the specification gives a periodicity
GapOf(periodicity) == CASE periodicity = "daily" -> 1 [] periodicity = "weekly" -> 7

\* s[i..j] is a run: successive differences all exactly gap
IsRun(s, i, j, gap) == \A m \in i..(j - 1) : s[m + 1] - s[m] = gap

\* length of the longest run of consecutive elements of s
LongestRun(s, gap) ==
    IF Len(s) = 0 THEN 0
    ELSE Maximum({n \in 1..Len(s) :
                    \E i \in 1..(Len(s) - n + 1) : IsRun(s, i, i + n - 1, gap)})

\* length of the run that ends at the last element of a non-empty s
TrailingRun(s, gap) ==
    Maximum({n \in 1..Len(s) : IsRun(s, Len(s) - n + 1, Len(s), gap)})

Dates(h) == Range(h.completions)

----------------------------------------------------------------------------
\* C1: in every state reached by create, complete and reset calls, failed
\* ones included, no completion date is earlier than start_date and no date
\* occurs twice in completions.
C1_CompletionsValid ==
    \A i \in 1..Len(habits) :
        LET c == habits[i].completions
        IN /\ \A k \in 1..Len(c) : c[k] >= habits[i].start_date
           /\ \A k, l \in 1..Len(c) : k # l => c[k] # c[l]

\* a failed complete() on a habit that already holds two completions
C1_Witness ==
    /\ habits # <<>>
    /\ Len(habits[1].completions) >= 2
    /\ call.op = "complete" /\ call.status = "ValueError"

\* C2: longest_streak is the length of the longest run, in the ascending
\* deduplicated dates, of successive differences equal to the expected gap;
\* it is 0 iff there are no completions, and 1 for a single completion or
\* when no two completions are exactly one gap apart.
C2_LongestStreak ==
    \A i \in 1..Len(habits) :
        LET h == habits[i]
            gap == GapOf(h.periodicity)
            ls == longest_streak_for_habit(h)
        IN /\ ls = LongestRun(AscSeq(Dates(h)), gap)
           /\ (ls = 0) <=> (h.completions = <<>>)
           /\ Len(h.completions) = 1 => ls = 1
           /\ (/\ h.completions # <<>>
               /\ \A x, y \in Dates(h) : y - x # gap) => ls = 1

\* three completions inserted out of order, the longest run shorter than
\* the list and not at its end
C2_Witness ==
    /\ habits # <<>>
    /\ Len(habits[1].completions) = 3
    /\ habits[1].completions[1] > habits[1].completions[2]
    /\ longest_streak_for_habit(habits[1]) = 2
    /\ TrailingRun(AscSeq(Dates(habits[1])), GapOf(habits[1].periodicity)) = 1

\* C3: for every reference date, current_streak is 0 when there are no
\* completions or the last completion is more than the expected gap before
\* the reference date; otherwise it is the length of the run ending at the
\* last completion, and so at least 1.
C3_CurrentStreak ==
    \A i \in 1..Len(habits) : \A t \in TodayRange :
        LET h == habits[i]
            gap == GapOf(h.periodicity)
            s == AscSeq(Dates(h))
            cs == current_streak_for_habit(h, t)
        IN IF h.completions = <<>> THEN cs = 0
           ELSE IF t - s[Len(s)] > gap THEN cs = 0
           ELSE cs = TrailingRun(s, gap) /\ cs >= 1

\* a habit with a run of two that is live at the ambient date and lapsed at
\* a later one
C3_Witness ==
    /\ habits # <<>>
    /\ current_streak_for_habit(habits[1], today) = 2
    /\ longest_streak_for_habit(habits[1]) = 2
    /\ \E t \in TodayRange : current_streak_for_habit(habits[1], t) = 0

\* C4: longest_streak_all_habits returns the maximum of longest_streak over
\* the habits and the names of exactly the habits that reach it (every tied
\* habit, no other, also when the maximum is 0); for no habits, an empty
\* list and 0.
C4_LongestOverall ==
    LET r == longest_streak_all_habits(habits)
        idx == 1..Len(habits)
    IN IF habits = <<>> THEN r = <<(<<>>), 0>>
       ELSE LET best == Maximum({longest_streak_for_habit(habits[i]) : i \in idx})
                tied == {i \in idx : longest_streak_for_habit(habits[i]) = best}
            IN /\ r[2] = best
               /\ Range(r[1]) = {habits[i].name : i \in tied}
               /\ Len(r[1]) = Cardinality(tied)

\* two habits tie at a streak of two
C4_Witness ==
    /\ Len(habits) >= 2
    /\ longest_streak_for_habit(habits[1]) = 2
    /\ longest_streak_for_habit(habits[2]) = 2
    /\ Len(longest_streak_all_habits(habits)[1]) = 2

\* C5: longest_streak_by_periodicity has exactly the periodicities of the
\* input as keys, and for each the (name, streak) of the habit of that
\* periodicity with the highest longest_streak, the first in input order
\* among those that tie.
C5_BestByPeriodicity ==
    LET r == longest_streak_by_periodicity(habits)
        idx == 1..Len(habits)
    IN /\ DOMAIN r = {habits[i].periodicity : i \in idx}
       /\ \A p \in DOMAIN r :
            LET bucket == {i \in idx : habits[i].periodicity = p}
                best == Maximum({longest_streak_for_habit(habits[i]) : i \in bucket})
                first == Minimum({i \in bucket : longest_streak_for_habit(habits[i]) = best})
            IN r[p] = <<habits[first].name, best>>

\* two habits of one periodicity tie at a streak of two
C5_Witness ==
    /\ Len(habits) >= 2
    /\ habits[1].periodicity = habits[2].periodicity
    /\ longest_streak_for_habit(habits[1]) = 2
    /\ longest_streak_for_habit(habits[2]) = 2
    /\ longest_streak_by_periodicity(habits)[habits[1].periodicity] = <<habits[1].name, 2>>

\* C6: complete(date) with date < start_date fails with ValueError and
\* leaves the completions as they were; with date >= start_date it never
\* fails.
C6_CompleteBeforeStart ==
    [][\A d \in DateSet \cup {None} :
         (habits # <<>> /\ Complete(1, d)) =>
            IF Effective(d) < habits[1].start_date
            THEN /\ call'.status = "ValueError"
                 /\ habits'[1].completions = habits[1].completions
            ELSE call'.status = "ok"]_vars

\* a complete() that failed on a habit holding completions
C6_Witness ==
    /\ habits # <<>>
    /\ habits[1].completions # <<>>
    /\ call.op = "complete" /\ call.status = "ValueError"
    /\ call.arg < habits[1].start_date

\* C9: a second complete(d) for a date already completed leaves the set of
\* completions, longest_streak, and current_streak for every reference date
\* unchanged.
C9_CompleteIdempotent ==
    [][\A d \in DateSet \cup {None} :
         (/\ habits # <<>>
          /\ Effective(d) \in Dates(habits[1])
          /\ Complete(1, d)) =>
            /\ call'.status = "ok"
            /\ Dates(habits'[1]) = Dates(habits[1])
            /\ longest_streak_for_habit(habits'[1]) = longest_streak_for_habit(habits[1])
            /\ \A t \in TodayRange :
                 current_streak_for_habit(habits'[1], t) = current_streak_for_habit(habits[1], t)]_vars

\* a repeated complete(d) after other dates were completed: the call
\* succeeded and its date is not the one appended last
C9_Witness ==
    /\ habits # <<>>
    /\ Len(habits[1].completions) >= 2
    /\ call.op = "complete" /\ call.status = "ok"
    /\ call.arg # habits[1].completions[Len(habits[1].completions)]
    /\ call.arg \in Dates(habits[1])

\* C10: two habits with the same periodicity and start_date that were given
\* the same set of dates, in whatever orders, have the same longest_streak
\* and the same current_streak for every reference date.
C10_OrderIndependent ==
    \A i, j \in 1..Len(habits) :
        (/\ habits[i].periodicity = habits[j].periodicity
         /\ habits[i].start_date = habits[j].start_date
         /\ Dates(habits[i]) = Dates(habits[j])) =>
            /\ longest_streak_for_habit(habits[i]) = longest_streak_for_habit(habits[j])
            /\ \A t \in TodayRange :
                 current_streak_for_habit(habits[i], t) = current_streak_for_habit(habits[j], t)

\* the same dates inserted in two different orders, with a run of two
C10_Witness ==
    /\ Len(habits) >= 2
    /\ habits[1].periodicity = habits[2].periodicity
    /\ habits[1].start_date = habits[2].start_date
    /\ Dates(habits[1]) = Dates(habits[2])
    /\ habits[1].completions # habits[2].completions
    /\ Len(habits[1].completions) = 3
    /\ longest_streak_for_habit(habits[1]) = 2

\* C7: when complete-habit is attempted on a habit whose start_date is after
\* the ambient today, the front end rejects it with a message: nothing is
\* recorded in memory or storage and the menu loop goes on.
C7_CompletionRejected ==
    [][\A choice \in Choices :
         (/\ pc = "menu"
          /\ habits # <<>>
          /\ ~InvalidSelection(choice)
          /\ today < habits[choice].start_date
          /\ CompleteHabit(choice)) =>
            /\ habits' = habits
            /\ db' = db
            /\ pc' = "menu"
            /\ out' # "Select habit: "]_vars

PeriodicityValid ==
    \A i \in 1..Len(habits) : habits[i].periodicity \in {"daily", "weekly"}

\* C8: every habit that exists has periodicity daily or weekly: creating
\* one with another periodicity fails with ValueError and yields no habit,
\* and an edit with an invalid new periodicity leaves name and periodicity
\* as they were.
C8_PeriodicityValid ==
    [][/\ PeriodicityValid /\ PeriodicityValid'
       /\ pc = "setup" =>
            \A periodicity \in PeriodicityInputs \ {"daily", "weekly"} :
              \A name \in SeedNames, start_date \in StartSet :
                Seed(name, periodicity, start_date) =>
                  /\ call'.status = "ValueError"
                  /\ db' = db
                  /\ habits' = habits
       /\ pc = "menu" =>
            \A new_periodicity_typed \in
                 {p \in PeriodicityTyped : Lower(Strip(p)) \notin {"", "daily", "weekly"}} :
              \A choice \in {c \in Choices : ~InvalidSelection(c)},
                 new_name_typed \in NameTyped \cup {""} :
                EditHabit(choice, new_name_typed, new_periodicity_typed) =>
                  /\ habits'[choice].name = habits[choice].name
                  /\ habits'[choice].periodicity = habits[choice].periodicity
                  /\ out' = "Invalid periodicity."]_vars

\* after a refused construction during setup, a loaded habit whose
\* periodicity an earlier edit changed, and an edit just refused
C8_Witness ==
    /\ pc = "menu"
    /\ habits # <<>>
    /\ call.op = "create" /\ call.status = "ValueError"
    /\ out = "Invalid periodicity."
    /\ \E i \in 1..Len(db.habits) :
         db.habits[i].id = habits[1].id /\ habits[1].periodicity = "weekly"

\* C11: for every habit reached by create, complete and reset and every
\* reference date, current_streak is at most longest_streak.
C11_CurrentAtMostLongest ==
    \A i \in 1..Len(habits) : \A t \in TodayRange :
        current_streak_for_habit(habits[i], t) <= longest_streak_for_habit(habits[i])

\* a habit whose live streak at the ambient date is shorter than its
\* longest one, and which has lapsed at a later reference date
C11_Witness ==
    /\ habits # <<>>
    /\ Len(habits[1].completions) = 3
    /\ longest_streak_for_habit(habits[1]) = 2
    /\ current_streak_for_habit(habits[1], today) = 1
    /\ \E t \in TodayRange : current_streak_for_habit(habits[1], t) = 0

====
